---- MODULE Spec2Model ----
(***************************************************************************)
(* Model of src/custom_tool.py: DocumentSearchTool (construction, _run)    *)
(* and split_pdf.                                                          *)
(*                                                                         *)
(* A path is a sequence of path components (<<"docs", "a.pdf">>), a file   *)
(* is the sequence of the source page indices it holds, and the remote     *)
(* service is the set of buckets and ingestion jobs it has been given.     *)
(* Every remote call is written to a log (clog during construction, qlog   *)
(* during a query) so that the order of the calls can be stated.           *)
(***************************************************************************)
EXTENDS Integers, Sequences, FiniteSets, TLC

(* ---------- program constants ---------- *)
SizeThreshold == 10485760
InitMaxPages == 10
SearchN == 10
SearchVerbosity == 2
BucketName == "agentic_rag"
StillProcessing == "Document is still being processed..."
NoInformation == "No relevant information found."
Delimiter == "\n____\n"

(* ---------- bounds of the model ---------- *)
MaxPages == 11
MaxSplitPages == 6
MaxWindow == 4
MaxFrags == 2

(* ---------- inputs ---------- *)
Paths == {<<"docs", "a.pdf">>, <<"b.pdf">>}
Sizes == {SizeThreshold - 1, SizeThreshold, SizeThreshold + 1}
Queries == {"q1", "q2"}
Fragments == {"A", "B", NoInformation}
BucketIds == {1, 2}
NoResult == "<no result>"
StalePart == <<"split_0.pdf">>

VARIABLES
    file_path,    \* self.file_path
    fileSize,     \* os.path.getsize(file_path)
    files,        \* the disk: path -> sequence of source page indices
    bucket_id,    \* self.bucket_id (0 before it is set)
    pdf_parts,    \* self.pdf_parts
    process_ids,  \* self.process_ids
    uploaded,     \* the list the comprehension of line 40 is building
    buckets,      \* remote: bucket id -> name
    jobs,         \* remote: job id -> ingested document and its status
    nextJob,      \* remote: smallest job id not yet handed out
    clog,         \* remote calls made by the constructor, in order
    input_path,   \* split_pdf: input_path
    max_pages,    \* split_pdf: max_pages (0 while split_pdf was never called)
    doc,          \* split_pdf: doc, the opened source
    parts,        \* split_pdf: parts, and its return value
    i,            \* split_pdf: i
    j,            \* split_pdf: j
    part_doc,     \* split_pdf: part_doc
    caller,       \* who called split_pdf: "__init__" or "direct"
    query,        \* _run: query
    results,      \* _run: results
    idx,          \* _run: 1-based position of the for loop in process_ids
    qlog,         \* remote calls made by the current (or last) query
    result,       \* the value the last _run returned
    pc

toolVars == <<file_path, bucket_id, pdf_parts, process_ids>>
vars == <<file_path, fileSize, files, bucket_id, pdf_parts, process_ids,
          uploaded, buckets, jobs, nextJob, clog, input_path, max_pages, doc,
          parts, i, j, part_doc, caller, query, results, idx, qlog, result, pc>>

(* ---------- helpers ---------- *)
Min(a, b) == IF a < b THEN a ELSE b

\* the pages 0 .. P-1 of a source document
SourcePages(P) == [k \in 1..P |-> k - 1]

\* os.path.basename
Basename(path) == <<path[Len(path)]>>

\* f"split_{i}.pdf", in the working directory
PartPath(start) == <<"split_" \o ToString(start) \o ".pdf">>

\* slip: the window ends one page early
WindowEnd_Short(start, W, P) == Min(start + W - 1, P)

\* range(i, min(i + max_pages, len(doc))) is exhausted at j
WindowEnd(start, W, P) == Min(start + W, P)

\* slip: a page is skipped between two windows
NextStart_Skip(start, W) == start + W + 1

\* range(0, len(doc), max_pages): the start after start
NextStart(start, W) == start + W

\* slip: an existing file is kept instead of overwritten
SaveFile_KeepOld(fs, path, pages) == fs @@ (path :> pages)

\* part_doc.save(part_path): the file is created or overwritten
SaveFile(fs, path, pages) == (path :> pages) @@ fs

(* ---------- split_pdf ---------- *)
SplitOpen ==
    /\ pc = "split_open"
    /\ doc' = files[input_path]
    /\ parts' = <<>>
    /\ i' = 0
    /\ pc' = "split_outer"
    /\ UNCHANGED <<file_path, fileSize, files, bucket_id, pdf_parts,
                   process_ids, uploaded, buckets, jobs, nextJob, clog,
                   input_path, max_pages, j, part_doc, caller, query, results,
                   idx, qlog, result>>

SplitOuter ==
    /\ pc = "split_outer"
    /\ i < Len(doc)
    /\ part_doc' = <<>>
    /\ j' = i
    /\ pc' = "split_inner"
    /\ UNCHANGED <<file_path, fileSize, files, bucket_id, pdf_parts,
                   process_ids, uploaded, buckets, jobs, nextJob, clog,
                   input_path, max_pages, doc, parts, i, caller, query,
                   results, idx, qlog, result>>

SplitInsert ==
    /\ pc = "split_inner"
    /\ j < WindowEnd(i, max_pages, Len(doc))
    /\ part_doc' = Append(part_doc, doc[j + 1])
    /\ j' = j + 1
    /\ UNCHANGED <<file_path, fileSize, files, bucket_id, pdf_parts,
                   process_ids, uploaded, buckets, jobs, nextJob, clog,
                   input_path, max_pages, doc, parts, i, caller, query,
                   results, idx, qlog, result, pc>>

SplitSave ==
    /\ pc = "split_inner"
    /\ j >= WindowEnd(i, max_pages, Len(doc))
    /\ files' = SaveFile(files, PartPath(i), part_doc)
    /\ parts' = Append(parts, PartPath(i))
    /\ i' = NextStart(i, max_pages)
    /\ pc' = "split_outer"
    /\ UNCHANGED <<file_path, fileSize, bucket_id, pdf_parts, process_ids,
                   uploaded, buckets, jobs, nextJob, clog, input_path,
                   max_pages, doc, j, part_doc, caller, query, results, idx,
                   qlog, result>>

SplitReturn ==
    /\ pc = "split_outer"
    /\ i >= Len(doc)
    /\ pdf_parts' = IF caller = "__init__" THEN parts ELSE pdf_parts
    /\ pc' = IF caller = "__init__" THEN "upload" ELSE "split_done"
    /\ UNCHANGED <<file_path, fileSize, files, bucket_id, process_ids,
                   uploaded, buckets, jobs, nextJob, clog, input_path,
                   max_pages, doc, parts, i, j, part_doc, caller, query,
                   results, idx, qlog, result>>

SplitNext == SplitOpen \/ SplitOuter \/ SplitInsert \/ SplitSave \/ SplitReturn

\* split_pdf called on its own: any page count, any window, with or without
\* a part file left in the working directory by an earlier run
SplitInit ==
    /\ file_path \in Paths
    /\ input_path = file_path
    /\ \E P \in 0..MaxSplitPages, stale \in BOOLEAN :
          files = IF stale
                  THEN (file_path :> SourcePages(P)) @@ (StalePart :> <<99>>)
                  ELSE (file_path :> SourcePages(P))
    /\ max_pages \in 1..MaxWindow
    /\ fileSize = SizeThreshold + 1
    /\ bucket_id = 0
    /\ pdf_parts = <<>>
    /\ process_ids = <<>>
    /\ uploaded = <<>>
    /\ buckets = <<>>
    /\ jobs = <<>>
    /\ nextJob = 1
    /\ clog = <<>>
    /\ doc = <<>>
    /\ parts = <<>>
    /\ i = 0
    /\ j = 0
    /\ part_doc = <<>>
    /\ caller = "direct"
    /\ query = ""
    /\ results = <<>>
    /\ idx = 0
    /\ qlog = <<>>
    /\ result = NoResult
    /\ pc = "split_open"

SplitSpec == SplitInit /\ [][SplitNext]_vars

(* ---------- DocumentSearchTool.__init__ ---------- *)
\* slip: >= for >
NeedsSplit_AtThreshold(size) == size >= SizeThreshold

\* os.path.getsize(file_path) > 10_485_760
NeedsSplit(size) == size > SizeThreshold

\* the Document of one ingest call, as the remote service stores it
IngestedDocument(bucket, path) ==
    [bucket_id |-> bucket, file_name |-> Basename(path), file_path |-> path,
     file_type |-> "pdf", status |-> "processing"]

\* slip: the ids are collected newest first
CollectId_Prepend(ids, id) == <<id>> \o ids

\* the list comprehension of line 40 collects the returned ids in part order
CollectId(ids, id) == Append(ids, id)

\* slip: the parts are uploaded last to first
NextPart_Reversed(partList, ids) == partList[Len(partList) - Len(ids)]

\* the part the comprehension uploads next
NextPart(partList, ids) == partList[Len(ids) + 1]

Init ==
    /\ file_path \in Paths
    /\ fileSize \in Sizes
    /\ \E P \in 0..MaxPages : files = (file_path :> SourcePages(P))
    /\ bucket_id = 0
    /\ pdf_parts = <<>>
    /\ process_ids = <<>>
    /\ uploaded = <<>>
    /\ buckets = <<>>
    /\ jobs = <<>>
    /\ nextJob = 1
    /\ clog = <<>>
    /\ input_path = <<>>
    /\ max_pages = 0
    /\ doc = <<>>
    /\ parts = <<>>
    /\ i = 0
    /\ j = 0
    /\ part_doc = <<>>
    /\ caller = "__init__"
    /\ query = ""
    /\ results = <<>>
    /\ idx = 0
    /\ qlog = <<>>
    /\ result = NoResult
    /\ pc = "create_bucket"

\* self.bucket_id = self._create_bucket(): the service answers with a new id
CreateBucket ==
    /\ pc = "create_bucket"
    /\ \E b \in BucketIds \ DOMAIN buckets :
          /\ buckets' = (b :> BucketName) @@ buckets
          /\ bucket_id' = b
          /\ clog' = Append(clog, [op |-> "create_bucket", arg |-> <<BucketName>>,
                                   bucket |-> 0, ok |-> TRUE, resp |-> b])
    /\ pc' = "getsize"
    /\ UNCHANGED <<file_path, fileSize, files, pdf_parts, process_ids,
                   uploaded, jobs, nextJob, input_path, max_pages, doc, parts,
                   i, j, part_doc, caller, query, results, idx, qlog, result>>

\* the create call raises: nothing catches it, construction ends
CreateBucketFail ==
    /\ pc = "create_bucket"
    /\ clog' = Append(clog, [op |-> "create_bucket", arg |-> <<BucketName>>,
                             bucket |-> 0, ok |-> FALSE, resp |-> 0])
    /\ pc' = "failed"
    /\ UNCHANGED <<file_path, fileSize, files, bucket_id, pdf_parts,
                   process_ids, uploaded, buckets, jobs, nextJob, input_path,
                   max_pages, doc, parts, i, j, part_doc, caller, query,
                   results, idx, qlog, result>>

\* lines 32-37: over the threshold split_pdf(file_path, max_pages=10) is
\* called, otherwise the file is the only part
CheckSize ==
    /\ pc = "getsize"
    /\ IF NeedsSplit(fileSize)
       THEN /\ input_path' = file_path
            /\ max_pages' = InitMaxPages
            /\ pc' = "split_open"
            /\ UNCHANGED pdf_parts
       ELSE /\ pdf_parts' = <<file_path>>
            /\ pc' = "upload"
            /\ UNCHANGED <<input_path, max_pages>>
    /\ UNCHANGED <<file_path, fileSize, files, bucket_id, process_ids,
                   uploaded, buckets, jobs, nextJob, clog, doc, parts, i, j,
                   part_doc, caller, query, results, idx, qlog, result>>

\* self._upload_document(part) for the next part: the service creates a job
\* and answers with its id (ids are the service's: other tenants use some)
Upload ==
    /\ pc = "upload"
    /\ Len(uploaded) < Len(pdf_parts)
    /\ \E id \in {nextJob, nextJob + 1} :
          LET part == NextPart(pdf_parts, uploaded) IN
          /\ jobs' = (id :> IngestedDocument(bucket_id, part)) @@ jobs
          /\ nextJob' = id + 1
          /\ uploaded' = CollectId(uploaded, id)
          /\ clog' = Append(clog, [op |-> "ingest", arg |-> part,
                                   bucket |-> bucket_id, ok |-> TRUE,
                                   resp |-> id])
    /\ UNCHANGED <<file_path, fileSize, files, bucket_id, pdf_parts,
                   process_ids, buckets, input_path, max_pages, doc, parts, i,
                   j, part_doc, caller, query, results, idx, qlog, result, pc>>

\* the ingest call raises: the comprehension is abandoned
UploadFail ==
    /\ pc = "upload"
    /\ Len(uploaded) < Len(pdf_parts)
    /\ clog' = Append(clog, [op |-> "ingest",
                             arg |-> NextPart(pdf_parts, uploaded),
                             bucket |-> bucket_id, ok |-> FALSE, resp |-> 0])
    /\ pc' = "failed"
    /\ UNCHANGED <<file_path, fileSize, files, bucket_id, pdf_parts,
                   process_ids, uploaded, buckets, jobs, nextJob, input_path,
                   max_pages, doc, parts, i, j, part_doc, caller, query,
                   results, idx, qlog, result>>

\* the comprehension is done: self.process_ids is assigned, __init__ returns
FinishInit ==
    /\ pc = "upload"
    /\ Len(uploaded) >= Len(pdf_parts)
    /\ process_ids' = uploaded
    /\ pc' = "ready"
    /\ UNCHANGED <<file_path, fileSize, files, bucket_id, pdf_parts, uploaded,
                   buckets, jobs, nextJob, clog, input_path, max_pages, doc,
                   parts, i, j, part_doc, caller, query, results, idx, qlog,
                   result>>

(* ---------- the remote service ---------- *)
\* ingestion goes on while the tool runs: a job being processed completes
\* or ends in error
RemoteProgress ==
    /\ \E id \in DOMAIN jobs, st \in {"complete", "error"} :
          /\ jobs[id].status = "processing"
          /\ jobs' = [jobs EXCEPT ![id].status = st]
    /\ UNCHANGED <<file_path, fileSize, files, bucket_id, pdf_parts,
                   process_ids, uploaded, buckets, nextJob, clog, input_path,
                   max_pages, doc, parts, i, j, part_doc, caller, query,
                   results, idx, qlog, result, pc>>

\* the result lists search.content may answer with
RECURSIVE SeqsUpTo(_, _)
SeqsUpTo(S, n) ==
    IF n = 0 THEN {<<>>}
    ELSE LET shorter == SeqsUpTo(S, n - 1) IN
         shorter \cup {Append(s, x) : s \in shorter, x \in S}

FragmentLists == SeqsUpTo(Fragments, MaxFrags)

(* ---------- DocumentSearchTool._run ---------- *)
\* slip: only a job still being processed counts as not complete
NotComplete_OnlyProcessing(status) == status = "processing"

\* slip: the status is fetched and ignored
NotComplete_Never(status) == FALSE

\* status_response.ingest.status != "complete"
NotComplete(status) == status # "complete"

\* slip: each search's texts are put in front of the earlier ones
AppendResults_Prepend(acc, frags) == frags \o acc

\* for result in search_response.search.results: results.append(result.text)
AppendResults(acc, frags) == acc \o frags

\* "\n____\n".join(results)
RECURSIVE Join(_)
Join(s) ==
    IF s = <<>> THEN ""
    ELSE IF Len(s) = 1 THEN s[1]
    ELSE s[1] \o Delimiter \o Join(Tail(s))

\* slip: a single fragment is treated like none
FinalResult_SingleDropped(acc) == IF Len(acc) > 1 THEN Join(acc) ELSE NoInformation

\* line 80
FinalResult(acc) == IF acc # <<>> THEN Join(acc) ELSE NoInformation

\* _run(query) is entered: results = [], the loop starts at the first job
RunStart ==
    /\ pc = "ready"
    /\ \E q \in Queries : query' = q
    /\ results' = <<>>
    /\ idx' = 1
    /\ qlog' = <<>>
    /\ result' = NoResult
    /\ pc' = "run_loop"
    /\ UNCHANGED <<file_path, fileSize, files, bucket_id, pdf_parts,
                   process_ids, uploaded, buckets, jobs, nextJob, clog,
                   input_path, max_pages, doc, parts, i, j, part_doc, caller>>

\* lines 66-71: the status of the current job is fetched; anything but
\* "complete" returns the fixed message at once
FetchStatus ==
    /\ pc = "run_loop"
    /\ idx <= Len(process_ids)
    /\ LET st == jobs[process_ids[idx]].status IN
          /\ qlog' = Append(qlog, [op |-> "status", target |-> process_ids[idx],
                                   query |-> "", n |-> 0, verbosity |-> 0,
                                   status |-> st, texts |-> <<>>])
          /\ IF NotComplete(st)
             THEN /\ result' = StillProcessing
                  /\ pc' = "ready"
             ELSE /\ pc' = "run_search"
                  /\ UNCHANGED result
    /\ UNCHANGED <<file_path, fileSize, files, bucket_id, pdf_parts,
                   process_ids, uploaded, buckets, jobs, nextJob, clog,
                   input_path, max_pages, doc, parts, i, j, part_doc, caller,
                   query, results, idx>>

\* lines 73-78: one search of the bucket, its texts appended to results
Search ==
    /\ pc = "run_search"
    /\ \E frags \in FragmentLists :
          /\ qlog' = Append(qlog, [op |-> "search", target |-> bucket_id,
                                   query |-> query, n |-> SearchN,
                                   verbosity |-> SearchVerbosity,
                                   status |-> "", texts |-> frags])
          /\ results' = AppendResults(results, frags)
    /\ idx' = idx + 1
    /\ pc' = "run_loop"
    /\ UNCHANGED <<file_path, fileSize, files, bucket_id, pdf_parts,
                   process_ids, uploaded, buckets, jobs, nextJob, clog,
                   input_path, max_pages, doc, parts, i, j, part_doc, caller,
                   query, result>>

\* line 80: the loop is exhausted
Return ==
    /\ pc = "run_loop"
    /\ idx > Len(process_ids)
    /\ result' = FinalResult(results)
    /\ pc' = "ready"
    /\ UNCHANGED <<file_path, fileSize, files, bucket_id, pdf_parts,
                   process_ids, uploaded, buckets, jobs, nextJob, clog,
                   input_path, max_pages, doc, parts, i, j, part_doc, caller,
                   query, results, idx, qlog>>

Next ==
    \/ CreateBucket \/ CreateBucketFail \/ CheckSize
    \/ SplitOpen \/ SplitOuter \/ SplitInsert \/ SplitSave \/ SplitReturn
    \/ Upload \/ UploadFail \/ FinishInit
    \/ RemoteProgress
    \/ RunStart \/ FetchStatus \/ Search \/ Return

Spec == Init /\ [][Next]_vars

(* ======================================================================= *)
(* Properties                                                              *)
(* ======================================================================= *)
Ceil(P, W) == (P + W - 1) \div W

\* the tool exists: __init__ has returned
Constructed == pc \in {"ready", "run_loop", "run_search"}

\* a _run has returned, and result is what it returned
Returned == pc = "ready" /\ result # NoResult

StatusAt(k) == qlog[k].op = "status"
SearchAt(k) == qlog[k].op = "search"
Searches == SelectSeq(qlog, LAMBDA e : e.op = "search")

\* the texts of all searches of the query, in the order they were answered
RECURSIVE Flatten(_)
Flatten(es) == IF es = <<>> THEN <<>> ELSE Head(es).texts \o Flatten(Tail(es))

\* the query went through every job and found each complete
AllComplete ==
    /\ Returned
    /\ \A k \in 1..Len(qlog) : StatusAt(k) => qlog[k].status = "complete"

(* C1: a query returns exactly "Document is still being processed..." when *)
(* a status it fetched was not "complete", and when a recorded job is not  *)
(* complete as it returns; wherever that job is in process_ids, whatever   *)
(* the other statuses, and whatever fragments were collected before.       *)
C1_IncompleteGivesSentinel ==
    Returned =>
        /\ (\E k \in 1..Len(qlog) : StatusAt(k) /\ qlog[k].status # "complete")
              => result = StillProcessing
        /\ (\E k \in 1..Len(process_ids) :
                jobs[process_ids[k]].status # "complete")
              => result = StillProcessing

\* the second job was found in error after the first one's search had
\* already collected fragments
C1_Witness ==
    /\ Returned
    /\ Len(process_ids) = 2
    /\ Len(qlog) = 3
    /\ qlog[3].status = "error"
    /\ results # <<>>
    /\ result = StillProcessing

(* C2 as stated: a search is issued only after the status of every job of  *)
(* process_ids was fetched and reported "complete".                        *)
C2_SearchOnlyAfterAllComplete ==
    \A k \in 1..Len(qlog) :
        SearchAt(k) =>
            \A m \in 1..Len(process_ids) :
                \E h \in 1..(k - 1) :
                    /\ StatusAt(h)
                    /\ qlog[h].target = process_ids[m]
                    /\ qlog[h].status = "complete"

(* C2 amended: status fetches and searches alternate. The m-th search of a *)
(* query directly follows the status fetch of job m, and the statuses of   *)
(* jobs 1..m, fetched in that order, all reported "complete"; a query that *)
(* finds job m the first incomplete one has issued m-1 searches, none only *)
(* when m = 1.                                                             *)
C2_SearchAfterOwnStatus ==
    /\ \A k \in 1..Len(qlog) :
          /\ SearchAt(k) <=> k % 2 = 0
          /\ StatusAt(k) => qlog[k].target = process_ids[(k + 1) \div 2]
          /\ SearchAt(k) =>
                \A h \in 1..(k - 1) : StatusAt(h) => qlog[h].status = "complete"
    /\ (Returned /\ result = StillProcessing) =>
          /\ Len(qlog) % 2 = 1
          /\ qlog[Len(qlog)].status # "complete"
          /\ Len(Searches) = (Len(qlog) - 1) \div 2

\* a search was issued in a query that then found the second job incomplete
C2_Witness ==
    /\ Returned
    /\ result = StillProcessing
    /\ Len(Searches) = 1
    /\ qlog[3].target = process_ids[2]

(* C3: once constructed, and through every query, pdf_parts and            *)
(* process_ids have the same length, process_ids[k] is the id the service  *)
(* returned for the upload of pdf_parts[k], the length is 1 for a file     *)
(* that was not split and the number of parts of the split otherwise; no   *)
(* step of a query changes file_path, bucket_id, pdf_parts or process_ids. *)
C3_Aligned ==
    Constructed =>
        /\ Len(process_ids) = Len(pdf_parts)
        /\ \A k \in 1..Len(pdf_parts) :
              /\ process_ids[k] \in DOMAIN jobs
              /\ jobs[process_ids[k]].file_path = pdf_parts[k]
              /\ clog[k + 1].op = "ingest"
              /\ clog[k + 1].arg = pdf_parts[k]
              /\ clog[k + 1].resp = process_ids[k]
        /\ Len(process_ids) =
              IF fileSize > SizeThreshold
              THEN Ceil(Len(files[file_path]), InitMaxPages)
              ELSE 1

C3_PartsAndJobsAligned ==
    /\ []C3_Aligned
    /\ [][Constructed => UNCHANGED toolVars]_vars

\* a split file of two parts, its second job under a different id than its
\* position, after a query
C3_Witness ==
    /\ Returned
    /\ Len(pdf_parts) = 2
    /\ process_ids[2] # 2
    /\ pdf_parts[2] = <<"split_10.pdf">>

(* C4: split_pdf on P pages with window W >= 1 returns ceil(P/W) parts;    *)
(* all but the last hold W pages, the last holds P - W*(ceil(P/W)-1)       *)
(* pages, which is between 1 and W, and is W exactly when W divides P.     *)
C4_PartCountAndSizes ==
    pc = "split_done" =>
        LET P == Len(doc)
            W == max_pages
            n == Ceil(P, W)
        IN /\ Len(parts) = n
           /\ \A k \in 1..(n - 1) : Len(files[parts[k]]) = W
           /\ n >= 1 =>
                 LET last == Len(files[parts[n]]) IN
                 /\ last = P - W * (n - 1)
                 /\ last \in 1..W
                 /\ (last = W) <=> (P % W = 0)

\* a split with full parts and a short last one
C4_Witness ==
    /\ pc = "split_done"
    /\ Len(doc) = 5
    /\ max_pages = 2
    /\ Len(parts) = 3
    /\ Len(files[parts[3]]) = 1

(* C5 as stated: for P <= W split_pdf produces exactly one part, holding   *)
(* all P pages.                                                            *)
C5_OnePartUpToWindow ==
    (pc = "split_done" /\ Len(doc) <= max_pages) =>
        /\ Len(parts) = 1
        /\ files[parts[1]] = doc

(* C5 amended: for 1 <= P <= W split_pdf produces exactly one part,        *)
(* holding all P pages; a source of no pages produces no part.             *)
C5_OnePartNonEmpty ==
    pc = "split_done" =>
        /\ (1 <= Len(doc) /\ Len(doc) <= max_pages) =>
              /\ Len(parts) = 1
              /\ files[parts[1]] = doc
              /\ files[parts[1]] = SourcePages(Len(doc))
        /\ Len(doc) = 0 => parts = <<>>

\* a source exactly as long as the window, over a stale split_0.pdf
C5_Witness ==
    /\ pc = "split_done"
    /\ Len(doc) = max_pages
    /\ Len(doc) = 3
    /\ Len(parts) = 1
    /\ DOMAIN files = {file_path, StalePart}

(* C6: construction splits exactly when the size is strictly greater than  *)
(* 10,485,760: at or under it split_pdf is never called and pdf_parts is   *)
(* [file_path]; over it split_pdf is called on file_path with a window of  *)
(* 10 pages and pdf_parts is the list it returned.                         *)
C6_SplitIffOverThreshold ==
    (bucket_id # 0 /\ pc \notin {"create_bucket", "getsize"}) =>
        /\ fileSize <= 10485760 =>
              /\ max_pages = 0
              /\ doc = <<>>
              /\ pdf_parts = <<file_path>>
        /\ fileSize >= 10485761 =>
              /\ max_pages = 10
              /\ input_path = file_path
              /\ pc \notin {"split_open", "split_outer", "split_inner"} =>
                    /\ pdf_parts = parts
                    /\ Len(pdf_parts) = Ceil(Len(files[file_path]), 10)

\* a file of exactly the threshold size, constructed unsplit
C6_Witness ==
    /\ pc = "ready"
    /\ fileSize = 10485760
    /\ pdf_parts = <<file_path>>
    /\ Len(files[file_path]) = 11

(* C7: when every job is complete a query over N jobs issues exactly N     *)
(* searches, each of the tool's bucket with the query's text and a result  *)
(* count of 10, the m-th after the status of job m; the result is the      *)
(* fragments joined by "\n____\n" in job order and, within a search, in    *)
(* answer order: ["A","B"] for a single job gives "A\n____\nB".            *)
C7_SearchPerJobJoined ==
    AllComplete =>
        /\ Len(Searches) = Len(process_ids)
        /\ \A m \in 1..Len(process_ids) :
              /\ qlog[2 * m - 1].op = "status"
              /\ qlog[2 * m - 1].target = process_ids[m]
              /\ qlog[2 * m].op = "search"
              /\ qlog[2 * m].target = bucket_id
              /\ qlog[2 * m].query = query
              /\ qlog[2 * m].n = 10
        /\ Flatten(Searches) # <<>> => result = Join(Flatten(Searches))
        /\ (Len(Searches) = 1 /\ Searches[1].texts = <<"A", "B">>)
              => result = "A\n____\nB"
        /\ (Len(Searches) = 2 /\ Searches[1].texts = <<"B">>
                /\ Searches[2].texts = <<"A", "B">>)
              => result = "B\n____\nA\n____\nB"

\* two complete jobs, each search answered with different fragments
C7_Witness ==
    /\ AllComplete
    /\ Len(process_ids) = 2
    /\ Searches[1].texts = <<"B">>
    /\ Searches[2].texts = <<"A", "B">>
    /\ result = "B\n____\nA\n____\nB"

(* C8 as stated: with every job complete, the result is "No relevant       *)
(* information found." exactly when the searches together returned no      *)
(* fragment.                                                               *)
C8_NoInformationIffEmpty ==
    AllComplete => (result = NoInformation <=> Flatten(Searches) = <<>>)

(* C8 amended: with every job complete and no fragment returned the result *)
(* is "No relevant information found."; with fragments returned it is the  *)
(* joined fragments, which is that string only when the one fragment       *)
(* returned has that very text.                                            *)
C8_NoInformationWhenEmpty ==
    AllComplete =>
        LET flat == Flatten(Searches) IN
        /\ flat = <<>> => result = "No relevant information found."
        /\ flat # <<>> => result = Join(flat)
        /\ result = "No relevant information found."
              => flat \in {<<>>, <<"No relevant information found.">>}

\* two complete jobs whose searches both came back empty
C8_Witness ==
    /\ AllComplete
    /\ Len(Searches) = 2
    /\ Flatten(Searches) = <<>>
    /\ result = NoInformation

(* C9: the constructor's remote calls are one create-bucket call, then one *)
(* ingest call per part in pdf_parts order, each with the bucket id the    *)
(* create call returned. A failed call is the last call made (nothing      *)
(* follows it, it is not retried) and ends construction; a tool that takes *)
(* queries has made every call successfully and holds one id per part.     *)
C9_ConstructionCalls ==
    /\ \A k \in 1..Len(clog) :
          /\ (k = 1) <=> (clog[k].op = "create_bucket")
          /\ k > 1 =>
                /\ clog[k].op = "ingest"
                /\ clog[k].bucket = clog[1].resp
                /\ clog[k].arg = pdf_parts[k - 1]
          /\ k < Len(clog) => clog[k].ok
    /\ (pc = "failed") <=> (clog # <<>> /\ ~clog[Len(clog)].ok)
    /\ pc = "failed" => process_ids = <<>>
    /\ pc = "create_bucket" <=> clog = <<>>
    /\ pc = "upload" => Len(clog) = 1 + Len(uploaded)
    /\ Constructed =>
          /\ Len(clog) = 1 + Len(pdf_parts)
          /\ Len(process_ids) = Len(pdf_parts)
          /\ bucket_id = clog[1].resp

\* the second of two uploads failed
C9_Witness ==
    /\ pc = "failed"
    /\ Len(pdf_parts) = 2
    /\ Len(clog) = 3
    /\ clog[2].ok
    /\ ~clog[3].ok

(* C10: the parts of one split_pdf call partition the source: part k (from *)
(* 0) holds the pages k*W .. min((k+1)*W, P)-1 in ascending order, so the  *)
(* parts put end to end are the source; part k is the file                 *)
(* "split_<k*W>.pdf", the returned paths are pairwise distinct and in      *)
(* ascending order of starting page.                                       *)
RECURSIVE Concat(_, _)
Concat(fs, ps) == IF ps = <<>> THEN <<>> ELSE fs[Head(ps)] \o Concat(fs, Tail(ps))

C10_PartsPartitionSource ==
    pc = "split_done" =>
        LET P == Len(doc)
            W == max_pages
        IN /\ \A k \in 0..(Len(parts) - 1) :
                 LET hi == IF (k + 1) * W < P THEN (k + 1) * W ELSE P IN
                 /\ parts[k + 1] = <<"split_" \o ToString(k * W) \o ".pdf">>
                 /\ files[parts[k + 1]] = [m \in 1..(hi - k * W) |-> k * W + m - 1]
           /\ Concat(files, parts) = SourcePages(P)
           /\ Cardinality({parts[k] : k \in 1..Len(parts)}) = Len(parts)
           /\ (W = 3 /\ P >= 4) => parts[2] = <<"split_3.pdf">>
           /\ files[file_path] = doc

\* three parts, the last one short
C10_Witness ==
    /\ pc = "split_done"
    /\ max_pages = 2
    /\ parts = <<<<"split_0.pdf">>, <<"split_2.pdf">>, <<"split_4.pdf">>>>
    /\ files[<<"split_4.pdf">>] = <<4>>

====
